---------------------------- MODULE Spec2Model ----------------------------
(***************************************************************************)
(* A model of fix-modals.py: the Patcher script that rewrites the          *)
(* alert()/confirm() call sites of src/index.tsx in place, and of the      *)
(* modal script block (showConfirm / showAlert / showSuccess / showError)  *)
(* it carries.                                                             *)
(*                                                                         *)
(* Text is modelled as TLA+ strings, character for character: Len, SubSeq  *)
(* and \o act on strings as they do on sequences.  The two emoji of the    *)
(* source (U+2705, U+274C) are outside the character set of TLA+ strings   *)
(* and are written "<U+2705>" and "<U+274C>"; they occur only inside the   *)
(* match texts of rules 10 to 12.                                          *)
(***************************************************************************)
EXTENDS Integers, Sequences, FiniteSets

VARIABLES
  \* ---- the file system and the Patcher process
  srcFile,      \* 'src/index.tsx' on disk: [exists, readable, data]
  modalFile,    \* 'modal-inject.html' on disk: [exists, readable, data]
  content,      \* the script's variable content
  modal_html,   \* the script's variable modal_html
  pc,           \* the statement the script is at
  ruleIdx,      \* the next replacement rule to apply (1..NumRules + 1)
  wpos,         \* characters of content that have reached the disk
  stdout,       \* lines printed by the current run
  \* ---- history of the runs (not read by the script)
  runs,         \* number of runs started
  src0,         \* srcFile as it was when the current run started
  opens,        \* times the current run opened srcFile for writing
  failedAt,     \* the statement at which the current run aborted ("" if none)
  results,      \* content of srcFile after each run that reached the end
  \* ---- the page running modal_script
  shown,        \* #proModal has the class 'show'
  proModalIcon, \* innerHTML of #proModalIcon
  proModalTitle,\* textContent of #proModalTitle
  proModalMsg,  \* textContent of #proModalMsg
  proModalBtns, \* the buttons of #proModalBtns, each with its onclick
  promises,     \* the promises returned by the show* calls, in call order
  \* ---- the rules applied in another order
  permSrc,      \* the document the permuted application started from
  permDoc,      \* the document after the rules applied so far
  todo,         \* rules not applied yet
  jumps         \* times a rule was applied ahead of an earlier pending one

patcherVars == <<srcFile, modalFile, content, modal_html, pc, ruleIdx, wpos,
                 stdout, runs, src0, opens, failedAt, results>>
modalVars == <<shown, proModalIcon, proModalTitle, proModalMsg, proModalBtns,
               promises>>
orderVars == <<permSrc, permDoc, todo, jumps>>
vars == <<patcherVars, modalVars, orderVars>>

----------------------------------------------------------------------------
(* Bounds of the model *)

\* pieces of text a source document is made of
MaxSegs == 2
\* runs of the Patcher in succession
MaxRuns == 2
\* characters the operating system writes at a time
BlockSize == 64
\* show* calls made on the page
MaxCalls == 3
\* rules applied ahead of their turn in the permuted application
MaxJumps == 1

----------------------------------------------------------------------------
(* The replacement rules, lines 22-105 *)

\* rule 1 with its match and replacement cut short before the closing quote
Rule1CutShort ==
  [old |-> "alert('Please log in to continue booking",
   new |-> "await showAlert('Please log in to continue booking"]

Rule1 ==
  [old |-> "alert('Please log in to continue booking');",
   new |-> "await showAlert('Please log in to continue booking', 'Login Required');"]

Rule2 ==
  [old |-> "alert('Please log in to continue booking.')",
   new |-> "await showAlert('Please log in to continue booking.', 'Login Required')"]

Rule3 ==
  [old |-> "alert('Please select a DJ first.');",
   new |-> "await showAlert('Please select a DJ first.', 'Selection Required');"]

Rule4 ==
  [old |-> "alert('Please select a date first.');",
   new |-> "await showAlert('Please select a date first.', 'Selection Required');"]

Rule5 ==
  [old |-> "alert('Please log in to continue.');",
   new |-> "await showAlert('Please log in to continue.', 'Login Required');"]

Rule6 ==
  [old |-> "alert('No booking data found. Please start from the beginning.');",
   new |-> "await showAlert('No booking data found. Please start from the beginning.', 'Error');"]

Rule7 ==
  [old |-> "alert('Please log in to continue with your booking.');",
   new |-> "await showAlert('Please log in to continue with your booking.', 'Login Required');"]

Rule8 ==
  [old |-> "alert('Your session has expired. Please log in again.');",
   new |-> "await showAlert('Your session has expired. Please log in again.', 'Session Expired');"]

Rule9 ==
  [old |-> "alert('Error: ' + error.message);",
   new |-> "await showError('Error: ' + error.message, 'Booking Error');"]

Rule10 ==
  [old |-> "alert('<U+2705> Booking status updated successfully!')",
   new |-> "await showSuccess('Booking status updated successfully!', 'Success')"]

Rule11 ==
  [old |-> "alert('<U+274C> Failed to update status: ' + response.data.error)",
   new |-> "await showError('Failed to update status: ' + response.data.error, 'Update Failed')"]

Rule12 ==
  [old |-> "alert('<U+274C> Error updating status')",
   new |-> "await showError('Error updating status', 'Update Failed')"]

Rule13 ==
  [old |-> "const shouldLogin = confirm('You need to be logged in to book a DJ. Would you like to log in now?');",
   new |-> "const shouldLogin = await showConfirm('You need to be logged in to book a DJ. Would you like to log in now?', 'Login Required');"]

Rule14 ==
  [old |-> "const shouldLogin = confirm('You need to be logged in to book a photobooth. Would you like to log in now?');",
   new |-> "const shouldLogin = await showConfirm('You need to be logged in to book a photobooth. Would you like to log in now?', 'Login Required');"]

Rule15 ==
  [old |-> "window.addEventListener('DOMContentLoaded', () => {",
   new |-> "window.addEventListener('DOMContentLoaded', async () => {"]

\* the 15 content.replace(old, new) statements in declaration order
LiteralRules ==
  <<Rule1, Rule2, Rule3, Rule4, Rule5, Rule6, Rule7, Rule8, Rule9, Rule10,
    Rule11, Rule12, Rule13, Rule14, Rule15>>

\* the pattern rule with the " {" left out of the pattern and the template
PatternRuleNoBrace ==
  LET group1 == "continueToCalendar()"
  IN [old |-> group1, new |-> group1 \o " async"]

\* re.sub(r"(continueToCalendar\(\)) {", r"\1 async {", content): the pattern
\* is group 1, the literal text continueToCalendar(), followed by " {"; it has
\* no anchor and no word boundary.  The template is group 1 then " async {".
PatternRule ==
  LET group1 == "continueToCalendar()"
  IN [old |-> group1 \o " {", new |-> group1 \o " async {"]

Rules == LiteralRules \o <<PatternRule>>
NumRules == Len(Rules)
NumLiteral == Len(LiteralRules)

----------------------------------------------------------------------------
(* str.replace and re.sub of a pattern without metacharacters: every       *)
(* occurrence, found left to right, an occurrence starting where the       *)
(* previous one ended at the earliest                                      *)

\* the positions at which old occurs in s
Occurrences(s, old) ==
  {i \in 1..(Len(s) + 1 - Len(old)) : SubSeq(s, i, i + Len(old) - 1) = old}

Least(S) == CHOOSE k \in S : \A m \in S : k <= m

RECURSIVE ReplaceFrom(_, _, _, _, _)
ReplaceFrom(s, old, new, occ, i) ==
  LET rest == {j \in occ : j >= i}
  IN IF rest = {} THEN SubSeq(s, i, Len(s))
     ELSE LET j == Least(rest)
          IN SubSeq(s, i, j - 1) \o new
               \o ReplaceFrom(s, old, new, occ, j + Len(old))

\* a scan that starts at the second character
ReplaceFromSecond(s, old, new) ==
  ReplaceFrom(s, old, new, Occurrences(s, old), 2)

Replace(s, old, new) == ReplaceFrom(s, old, new, Occurrences(s, old), 1)

Count(s, old) == Cardinality(Occurrences(s, old))

IsPrefix(p, s) == Len(p) <= Len(s) /\ SubSeq(s, 1, Len(p)) = p

\* lines 22-105 as one function: the rules from the k-th on, in order
RECURSIVE PatchFrom(_, _)
PatchFrom(s, k) ==
  IF k > NumRules THEN s
  ELSE PatchFrom(Replace(s, Rules[k].old, Rules[k].new), k + 1)

Patch(s) == PatchFrom(s, 1)

----------------------------------------------------------------------------
(* The documents the runs start from *)

LoginLines ==
  Rule1.old \o "\n" \o Rule2.old \o ";\n" \o Rule5.old \o "\n" \o Rule7.old
BookingLines ==
  Rule4.old \o "\n" \o Rule6.old \o "\n" \o Rule8.old \o "\n" \o Rule9.old
StatusLines ==
  Rule10.old \o ";\n" \o Rule11.old \o ";\n" \o Rule12.old \o ";"
ConfirmLines ==
  Rule13.old \o "\n" \o Rule14.old

Pieces ==
  { Rule3.old, Rule15.old, PatternRule.old,
    LoginLines, BookingLines, StatusLines, ConfirmLines,
    "x", "\n" }

RECURSIVE DocsUpTo(_)
DocsUpTo(n) ==
  IF n = 0 THEN {""}
  ELSE LET D == DocsUpTo(n - 1) IN D \cup {d \o p : d \in D, p \in Pieces}

Docs == DocsUpTo(MaxSegs)

ModalDocs == { "<div id='proModal'></div>", Rule3.old }

File(d) == [exists |-> TRUE, readable |-> TRUE, data |-> d]
Absent == [exists |-> FALSE, readable |-> FALSE, data |-> ""]
Unreadable(d) == [exists |-> TRUE, readable |-> FALSE, data |-> d]

----------------------------------------------------------------------------
(* The Patcher *)

ModalIdle ==
  /\ shown = FALSE
  /\ proModalIcon = ""
  /\ proModalTitle = ""
  /\ proModalMsg = ""
  /\ proModalBtns = <<>>
  /\ promises = <<>>

OrderIdle ==
  /\ permSrc = ""
  /\ permDoc = ""
  /\ todo = {}
  /\ jumps = 0

PatcherIdle ==
  /\ srcFile = Absent
  /\ modalFile = Absent
  /\ content = ""
  /\ modal_html = ""
  /\ pc = "idle"
  /\ ruleIdx = 1
  /\ wpos = 0
  /\ stdout = <<>>
  /\ runs = 0
  /\ src0 = Absent
  /\ opens = 0
  /\ failedAt = ""
  /\ results = <<>>

InitPatcher ==
  /\ srcFile \in {File(d) : d \in Docs} \cup {Absent, Unreadable(Rule3.old)}
  /\ modalFile \in {File(d) : d \in ModalDocs} \cup {Absent, Unreadable("")}
  /\ content = ""
  /\ modal_html = ""
  /\ pc = "read_source"
  /\ ruleIdx = 1
  /\ wpos = 0
  /\ stdout = <<>>
  /\ runs = 1
  /\ src0 = srcFile
  /\ opens = 0
  /\ failedAt = ""
  /\ results = <<>>

Init == InitPatcher /\ ModalIdle /\ OrderIdle

\* lines 4-5: with open('src/index.tsx', 'r') as f: content = f.read()
ReadSource ==
  /\ pc = "read_source"
  /\ IF srcFile.exists /\ srcFile.readable
     THEN /\ content' = srcFile.data
          /\ pc' = "read_modal"
          /\ failedAt' = failedAt
     ELSE /\ content' = content
          /\ pc' = "aborted"
          /\ failedAt' = "read_source"
  /\ UNCHANGED <<srcFile, modalFile, modal_html, ruleIdx, wpos, stdout, runs,
                 src0, opens, results>>
  /\ UNCHANGED <<modalVars, orderVars>>

\* the source file already opened for writing when the modal HTML is read
ReadModalHtmlAfterOpen ==
  /\ pc = "read_modal"
  /\ IF modalFile.exists /\ modalFile.readable
     THEN /\ modal_html' = modalFile.data
          /\ pc' = "rules"
          /\ failedAt' = failedAt
          /\ srcFile' = srcFile
     ELSE /\ modal_html' = modal_html
          /\ pc' = "aborted"
          /\ failedAt' = "read_modal"
          /\ srcFile' = [srcFile EXCEPT !.data = ""]
  /\ UNCHANGED <<modalFile, content, ruleIdx, wpos, stdout, runs,
                 src0, opens, results>>
  /\ UNCHANGED <<modalVars, orderVars>>

\* the modal HTML spliced into the document
ReadModalHtmlInject ==
  /\ pc = "read_modal"
  /\ IF modalFile.exists /\ modalFile.readable
     THEN /\ modal_html' = modalFile.data
          /\ content' = content \o modalFile.data
          /\ pc' = "rules"
          /\ failedAt' = failedAt
     ELSE /\ modal_html' = modal_html
          /\ content' = content
          /\ pc' = "aborted"
          /\ failedAt' = "read_modal"
  /\ UNCHANGED <<srcFile, modalFile, ruleIdx, wpos, stdout, runs,
                 src0, opens, results>>
  /\ UNCHANGED <<modalVars, orderVars>>

\* lines 8-9: with open('modal-inject.html', 'r') as f: modal_html = f.read()
ReadModalHtml ==
  /\ pc = "read_modal"
  /\ IF modalFile.exists /\ modalFile.readable
     THEN /\ modal_html' = modalFile.data
          /\ pc' = "rules"
          /\ failedAt' = failedAt
     ELSE /\ modal_html' = modal_html
          /\ pc' = "aborted"
          /\ failedAt' = "read_modal"
  /\ UNCHANGED <<srcFile, modalFile, content, ruleIdx, wpos, stdout, runs,
                 src0, opens, results>>
  /\ UNCHANGED <<modalVars, orderVars>>

\* a rule that raises when its match is absent
ApplyRuleStrict ==
  /\ pc = "rules"
  /\ IF Occurrences(content, Rules[ruleIdx].old) = {}
     THEN /\ pc' = "aborted"
          /\ failedAt' = "rules"
          /\ UNCHANGED <<content, ruleIdx>>
     ELSE /\ content' = Replace(content, Rules[ruleIdx].old, Rules[ruleIdx].new)
          /\ ruleIdx' = ruleIdx + 1
          /\ pc' = IF ruleIdx = NumRules THEN "print_completed" ELSE "rules"
          /\ failedAt' = failedAt
  /\ UNCHANGED <<srcFile, modalFile, modal_html, wpos, stdout, runs, src0,
                 opens, results>>
  /\ UNCHANGED <<modalVars, orderVars>>

\* lines 22-105: the next content = content.replace(...) / re.sub(...)
ApplyRule ==
  /\ pc = "rules"
  /\ content' = Replace(content, Rules[ruleIdx].old, Rules[ruleIdx].new)
  /\ ruleIdx' = ruleIdx + 1
  /\ pc' = IF ruleIdx = NumRules THEN "print_completed" ELSE "rules"
  /\ UNCHANGED <<srcFile, modalFile, modal_html, wpos, stdout, runs, src0,
                 opens, failedAt, results>>
  /\ UNCHANGED <<modalVars, orderVars>>

\* the final message printed with the progress messages
PrintCompletedAndDone ==
  /\ pc = "print_completed"
  /\ stdout' = stdout \o <<"Replacements completed!", "Saving to src/index.tsx...",
                          "Done! File updated.">>
  /\ pc' = "open_write"
  /\ UNCHANGED <<srcFile, modalFile, content, modal_html, ruleIdx, wpos, runs,
                 src0, opens, failedAt, results>>
  /\ UNCHANGED <<modalVars, orderVars>>

\* lines 107-108
PrintCompleted ==
  /\ pc = "print_completed"
  /\ stdout' = stdout \o <<"Replacements completed!", "Saving to src/index.tsx...">>
  /\ pc' = "open_write"
  /\ UNCHANGED <<srcFile, modalFile, content, modal_html, ruleIdx, wpos, runs,
                 src0, opens, failedAt, results>>
  /\ UNCHANGED <<modalVars, orderVars>>

\* the file opened in mode 'a': nothing is truncated
OpenForAppend ==
  /\ pc = "open_write"
  /\ \/ /\ opens' = opens + 1
        /\ wpos' = 0
        /\ pc' = "write"
        /\ UNCHANGED <<srcFile, failedAt>>
     \/ /\ pc' = "aborted"
        /\ failedAt' = "open_write"
        /\ UNCHANGED <<srcFile, opens, wpos>>
  /\ UNCHANGED <<modalFile, content, modal_html, ruleIdx, stdout, runs, src0,
                 results>>
  /\ UNCHANGED <<modalVars, orderVars>>

\* line 111: open('src/index.tsx', 'w') truncates the file, or raises and
\* leaves it alone
OpenForWrite ==
  /\ pc = "open_write"
  /\ \/ /\ srcFile' = [exists |-> TRUE, readable |-> srcFile.readable, data |-> ""]
        /\ opens' = opens + 1
        /\ wpos' = 0
        /\ pc' = "write"
        /\ failedAt' = failedAt
     \/ /\ pc' = "aborted"
        /\ failedAt' = "open_write"
        /\ UNCHANGED <<srcFile, opens, wpos>>
  /\ UNCHANGED <<modalFile, content, modal_html, ruleIdx, stdout, runs, src0,
                 results>>
  /\ UNCHANGED <<modalVars, orderVars>>

Min(a, b) == IF a <= b THEN a ELSE b

\* line 112: f.write(content) and the close at the end of the with block; the
\* text reaches the disk a block at a time, and the write or the close may
\* raise at any point
WriteContent ==
  /\ pc = "write"
  /\ \/ /\ wpos < Len(content)
        /\ LET to == Min(wpos + BlockSize, Len(content))
           IN /\ srcFile' = [srcFile EXCEPT !.data = @ \o SubSeq(content, wpos + 1, to)]
              /\ wpos' = to
        /\ UNCHANGED <<pc, failedAt>>
     \/ /\ wpos = Len(content)
        /\ pc' = "print_done"
        /\ UNCHANGED <<srcFile, wpos, failedAt>>
     \/ /\ pc' = "aborted"
        /\ failedAt' = "write"
        /\ UNCHANGED <<srcFile, wpos>>
  /\ UNCHANGED <<modalFile, content, modal_html, ruleIdx, stdout, runs, src0,
                 opens, results>>
  /\ UNCHANGED <<modalVars, orderVars>>

\* lines 114-116
PrintDone ==
  /\ pc = "print_done"
  /\ stdout' = stdout \o <<"Done! File updated.",
                          "\nNote: You still need to inject the modal HTML into pages manually.",
                          "The modal HTML is already injected in DJ services page.">>
  /\ pc' = "done"
  /\ results' = Append(results, srcFile.data)
  /\ UNCHANGED <<srcFile, modalFile, content, modal_html, ruleIdx, wpos, runs,
                 src0, opens, failedAt>>
  /\ UNCHANGED <<modalVars, orderVars>>

\* the script is run again on the file the previous run left
RunAgain ==
  /\ pc = "done"
  /\ runs < MaxRuns
  /\ runs' = runs + 1
  /\ pc' = "read_source"
  /\ content' = ""
  /\ modal_html' = ""
  /\ ruleIdx' = 1
  /\ wpos' = 0
  /\ stdout' = <<>>
  /\ src0' = srcFile
  /\ opens' = 0
  /\ failedAt' = ""
  /\ UNCHANGED <<srcFile, modalFile, results>>
  /\ UNCHANGED <<modalVars, orderVars>>

\* the statements of one run
Step ==
  \/ ReadSource
  \/ ReadModalHtml
  \/ ApplyRule
  \/ PrintCompleted
  \/ OpenForWrite
  \/ WriteContent
  \/ PrintDone

Next == Step \/ RunAgain

Spec == Init /\ [][Next]_vars

----------------------------------------------------------------------------
(* Properties of the Patcher *)

Final == {"done", "aborted"}

\* the document has no match of any rule
NoRuleMatches(d) == \A j \in 1..NumRules : Occurrences(d, Rules[j].old) = {}

\* C1: a run that follows a completed run leaves the source file with the
\* content the earlier run left: patch(patch(d)) = patch(d).
C1_Idempotent ==
  (pc = "done" /\ Len(results) >= 2)
    => results[Len(results)] = results[Len(results) - 1]

\* a second run has completed on a file in which the first run rewrote the
\* DOMContentLoaded handler and the continueToCalendar definition
C1_Witness ==
  /\ pc = "done"
  /\ Len(results) = 2
  /\ Occurrences(results[2], Rule15.new) # {}
  /\ Occurrences(results[2], PatternRule.new) # {}

\* the text of document d around the occurrence of old at position p
Before(d, p) == SubSeq(d, 1, p - 1)
After(d, p, old) == SubSeq(d, p + Len(old), Len(d))

\* C2 as stated: when the document read holds exactly one occurrence of a
\* literal rule's match, the document written is the document read with that
\* occurrence replaced by the rule's replacement and nothing else changed.
C2_OnlyThatRegionChanges ==
  pc = "done" =>
    \A i \in 1..NumLiteral :
      LET d == src0.data
          occ == Occurrences(d, Rules[i].old)
      IN Cardinality(occ) = 1 =>
           LET p == Least(occ)
           IN srcFile.data =
                Before(d, p) \o Rules[i].new \o After(d, p, Rules[i].old)

\* C2 amended: when the document read holds exactly one occurrence of a
\* literal rule's match, the document written is patch(text before it), the
\* rule's replacement, patch(text after it): the occurrence is replaced exactly
\* once, and the text before and after it changes only where other rules match
\* in it; it is unchanged when no other rule matches in the document.
C2_OccurrenceReplacedOnce ==
  pc = "done" =>
    \A i \in 1..NumLiteral :
      LET d == src0.data
          occ == Occurrences(d, Rules[i].old)
      IN Cardinality(occ) = 1 =>
           LET p == Least(occ)
               before == Before(d, p)
               after == After(d, p, Rules[i].old)
           IN /\ srcFile.data = Patch(before) \o Rules[i].new \o Patch(after)
              /\ (\A j \in 1..NumRules :
                    j # i => Occurrences(d, Rules[j].old) = {})
                   => srcFile.data = before \o Rules[i].new \o after

\* the run has rewritten the one alert of a document of two lines
C2_Witness ==
  /\ pc = "done"
  /\ src0.data = "\n" \o Rule3.old
  /\ srcFile.data = "\n" \o Rule3.new

\* C3: a rule whose match does not occur in the document leaves the document
\* as it is and raises nothing, and a run on a document no rule matches writes
\* back the content it read.
C3_NoOp ==
  [][ /\ (pc = "rules" /\ Occurrences(content, Rules[ruleIdx].old) = {})
         => (content' = content /\ pc' # "aborted")
      /\ (pc = "print_done" /\ pc' = "done" /\ NoRuleMatches(src0.data))
         => srcFile'.data = src0.data ]_vars

\* a run has completed on a non-empty document that no rule matches
C3_Witness ==
  /\ pc = "done"
  /\ src0.data = "x\n"
  /\ srcFile.data = "x\n"

\* the identifier characters put in front of the targeted name
IdentChars == {"x", "_"}

\* C4: the pattern rule rewrites every continueToCalendar() { to
\* continueToCalendar() async { and leaves the definition of any function with
\* another name as it is.
C4_PatternRule ==
  [][ (pc = "rules" /\ ruleIdx = NumRules) =>
        /\ Occurrences(content', PatternRule.old) = {}
        /\ Count(content', PatternRule.new)
             = Count(content, PatternRule.new) + Count(content, PatternRule.old)
        /\ \A c \in IdentChars :
             Count(content', c \o PatternRule.old)
               = Count(content, c \o PatternRule.old) ]_vars

\* C5: a run that aborted while reading the source file or the modal HTML
\* never opened the source file for writing and left it as it was, absent if
\* it was absent.
C5_ReadFailureWritesNothing ==
  (pc = "aborted" /\ failedAt \in {"read_source", "read_modal"})
    => (opens = 0 /\ srcFile = src0)

\* the modal HTML is missing and the source file holds an alert to rewrite
C5_Witness ==
  /\ pc = "aborted"
  /\ failedAt = "read_modal"
  /\ ~modalFile.exists
  /\ srcFile.exists
  /\ Occurrences(srcFile.data, Rule3.old) # {}

\* C6: the content written is a function of the source content alone, patch
\* of it, whatever the modal HTML holds, and no step changes the modal HTML
\* file.
C6_ModalNeverInfluences ==
  /\ [](pc = "done" => srcFile.data = Patch(src0.data))
  /\ [][modalFile' = modalFile]_vars

\* a run has completed that read a modal HTML holding a match and changed the
\* source file
C6_Witness ==
  /\ pc = "done"
  /\ modal_html = Rule3.old
  /\ srcFile.data # src0.data

\* C9: a run that aborted in the write step leaves the source file
\* truncated to the part of the patched content written so far, a prefix of
\* it, and takes no further step.
C9_WriteNotTransactional ==
  (pc = "aborted" /\ failedAt = "write") =>
    /\ srcFile.exists
    /\ Len(srcFile.data) = wpos
    /\ IsPrefix(srcFile.data, content)
    /\ ~ENABLED Next

\* the write failed half way: the file holds neither the original nor the
\* patched content
C9_Witness ==
  /\ pc = "aborted"
  /\ failedAt = "write"
  /\ srcFile.data # ""
  /\ srcFile.data # src0.data
  /\ srcFile.data # content
  /\ IsPrefix(srcFile.data, content)

\* the position of the run in the script
Rank ==
  CASE pc = "read_source" -> 0
    [] pc = "read_modal" -> 1
    [] pc = "rules" -> 1 + ruleIdx
    [] pc = "print_completed" -> 2 + NumRules
    [] pc = "open_write" -> 3 + NumRules
    [] pc = "write" -> 4 + NumRules + wpos
    [] pc = "print_done" -> 5 + NumRules + Len(content)
    [] OTHER -> 6 + NumRules + Len(content)

Printed(line) == \E k \in 1..Len(stdout) : stdout[k] = line

\* what C10 says of one state of a run
OrderOfEffects ==
  /\ wpos <= Len(content)
  /\ opens <= 1
  /\ opens = 1 =>
       /\ ruleIdx = NumRules + 1
       /\ failedAt \notin {"read_source", "read_modal"}
       /\ Printed("Replacements completed!")
  /\ Printed("Replacements completed!") => ruleIdx = NumRules + 1
  /\ Printed("Done! File updated.") =>
       (pc = "done" /\ failedAt = "" /\ opens = 1 /\ srcFile.data = content)
  /\ pc = "aborted" => failedAt # ""

\* C10: a run only moves forward through the script and can always take its
\* next step until it has ended; it opens the source file for writing at most
\* once, after both reads and all the rules; "Replacements completed!" is
\* printed before the file is opened, and "Done! File updated." only once the
\* whole content is written, never in a run that aborted.
C10_LinearRun ==
  [][ /\ pc \notin Final => ENABLED Step
      /\ runs' = runs => Rank' > Rank
      /\ OrderOfEffects
      /\ OrderOfEffects' ]_vars

\* a run has ended with both messages printed in order
C10_Witness ==
  /\ pc = "done"
  /\ Len(stdout) >= 3
  /\ stdout[1] = "Replacements completed!"
  /\ stdout[3] = "Done! File updated."
  /\ srcFile.data # src0.data

----------------------------------------------------------------------------
(* The modal script, lines 12-19, running in a page *)

\* the text of the script block; no statement of the Patcher reads it
modal_script ==
  "\n<script>\nwindow.showConfirm=function(msg,title='Confirm'){return new Promise(r=>{const m=document.getElementById('proModal'),i=document.getElementById('proModalIcon'),t=document.getElementById('proModalTitle'),p=document.getElementById('proModalMsg'),b=document.getElementById('proModalBtns');i.innerHTML='<i class=\"fas fa-question-circle\" style=\"color:#FFD700\"></i>';t.textContent=title;p.textContent=msg;b.innerHTML='<button class=\"pro-btn pro-btn-secondary\">Cancel</button><button class=\"pro-btn pro-btn-primary\">Confirm</button>';b.querySelectorAll('button')[0].onclick=()=>{m.classList.remove('show');r(false)};b.querySelectorAll('button')[1].onclick=()=>{m.classList.remove('show');r(true)};m.classList.add('show')})};\nwindow.showAlert=function(msg,title='Notice'){return new Promise(r=>{const m=document.getElementById('proModal'),i=document.getElementById('proModalIcon'),t=document.getElementById('proModalTitle'),p=document.getElementById('proModalMsg'),b=document.getElementById('proModalBtns');i.innerHTML='<i class=\"fas fa-info-circle\" style=\"color:#FFD700\"></i>';t.textContent=title;p.textContent=msg;b.innerHTML='<button class=\"pro-btn pro-btn-primary\">OK</button>';b.querySelector('button').onclick=()=>{m.classList.remove('show');r()};m.classList.add('show')})};\nwindow.showSuccess=function(msg,title='Success'){return new Promise(r=>{const m=document.getElementById('proModal'),i=document.getElementById('proModalIcon'),t=document.getElementById('proModalTitle'),p=document.getElementById('proModalMsg'),b=document.getElementById('proModalBtns');i.innerHTML='<i class=\"fas fa-check-circle\" style=\"color:#28A745\"></i>';t.textContent=title;p.textContent=msg;b.innerHTML='<button class=\"pro-btn pro-btn-primary\">OK</button>';b.querySelector('button').onclick=()=>{m.classList.remove('show');r()};m.classList.add('show')})};\nwindow.showError=function(msg,title='Error'){return new Promise(r=>{const m=document.getElementById('proModal'),i=document.getElementById('proModalIcon'),t=document.getElementById('proModalTitle'),p=document.getElementById('proModalMsg'),b=document.getElementById('proModalBtns');i.innerHTML='<i class=\"fas fa-times-circle\" style=\"color:#DC143C\"></i>';t.textContent=title;p.textContent=msg;b.innerHTML='<button class=\"pro-btn pro-btn-primary\">OK</button>';b.querySelector('button').onclick=()=>{m.classList.remove('show');r()};m.classList.add('show')})};\n</script>\n"

\* messages and titles the call sites pass; NoTitle is a call without a title
Msgs == {"Please select a DJ first."}
NoTitle == "undefined"
Titles == {NoTitle, "Login Required"}

\* new Promise(r => {...}): the promise is pending and r was never called
NewPromise(fn) ==
  [fn |-> fn, settled |-> FALSE, value |-> "pending", by |-> "", calls |-> 0]

\* r(v) called from the onclick of the button labelled by: the first call
\* settles the promise, a later one changes nothing
Resolve(p, v, by) ==
  IF p.settled THEN [p EXCEPT !.calls = @ + 1]
  ELSE [p EXCEPT !.settled = TRUE, !.value = v, !.by = by, !.calls = @ + 1]

\* the body shared by the four functions: the icon, the title (title = dflt
\* when the call gives none), the message, b.innerHTML replaced by new buttons
\* whose onclick resolves the new promise, and m.classList.add('show')
Show(fn, icon, dflt, msg, title, btns) ==
  /\ promises' = Append(promises, NewPromise(fn))
  /\ proModalIcon' = icon
  /\ proModalTitle' = IF title = NoTitle THEN dflt ELSE title
  /\ proModalMsg' = msg
  /\ proModalBtns' =
       [k \in 1..Len(btns) |->
          [label |-> btns[k][1], promise |-> Len(promises) + 1, arg |-> btns[k][2]]]
  /\ shown' = TRUE
  /\ UNCHANGED <<patcherVars, orderVars>>

\* line 14
ShowConfirm ==
  /\ Len(promises) < MaxCalls
  /\ \E msg \in Msgs, title \in Titles :
    Show("showConfirm",
         "<i class=\"fas fa-question-circle\" style=\"color:#FFD700\"></i>",
         "Confirm", msg, title,
         <<<<"Cancel", "false">>, <<"Confirm", "true">>>>)

\* line 15
ShowAlert ==
  /\ Len(promises) < MaxCalls
  /\ \E msg \in Msgs, title \in Titles :
    Show("showAlert",
         "<i class=\"fas fa-info-circle\" style=\"color:#FFD700\"></i>",
         "Notice", msg, title, <<<<"OK", "undefined">>>>)

\* line 16
ShowSuccess ==
  /\ Len(promises) < MaxCalls
  /\ \E msg \in Msgs, title \in Titles :
    Show("showSuccess",
         "<i class=\"fas fa-check-circle\" style=\"color:#28A745\"></i>",
         "Success", msg, title, <<<<"OK", "undefined">>>>)

\* line 17
ShowError ==
  /\ Len(promises) < MaxCalls
  /\ \E msg \in Msgs, title \in Titles :
    Show("showError",
         "<i class=\"fas fa-times-circle\" style=\"color:#DC143C\"></i>",
         "Error", msg, title, <<<<"OK", "undefined">>>>)

\* the user clicks a button of the dialog on screen; its onclick runs
\* m.classList.remove('show') and r(arg)
ClickButton ==
  /\ shown
  /\ \E k \in 1..Len(proModalBtns) :
       LET b == proModalBtns[k]
       IN promises' =
            [promises EXCEPT ![b.promise] = Resolve(@, b.arg, b.label)]
  /\ shown' = FALSE
  /\ UNCHANGED <<proModalIcon, proModalTitle, proModalMsg, proModalBtns>>
  /\ UNCHANGED <<patcherVars, orderVars>>

InitModal == ModalIdle /\ PatcherIdle /\ OrderIdle

NextModal ==
  \/ ShowConfirm
  \/ ShowAlert
  \/ ShowSuccess
  \/ ShowError
  \/ ClickButton

SpecModal == InitModal /\ [][NextModal]_vars

\* promise p can still be resolved: its dialog is on screen with a button
\* whose onclick calls its r
Resolvable(p) ==
  shown /\ \E k \in 1..Len(proModalBtns) : proModalBtns[k].promise = p

\* C7: every promise returned by a show* call is resolved exactly once, when
\* its dialog is dismissed: r is never called twice, a promise not yet
\* resolved still has its dialog open, and showConfirm resolves true exactly
\* on Confirm and false exactly on Cancel.
C7_ResolvedExactlyOnce ==
  \A p \in 1..Len(promises) :
    /\ promises[p].calls <= 1
    /\ promises[p].settled <=> promises[p].calls = 1
    /\ ~promises[p].settled => Resolvable(p)
    /\ (promises[p].fn = "showConfirm" /\ promises[p].settled) =>
         /\ promises[p].value = "true" <=> promises[p].by = "Confirm"
         /\ promises[p].value = "false" <=> promises[p].by = "Cancel"

----------------------------------------------------------------------------
(* The rules applied in another order to the document a completed run read *)

\* a document in which every rule matches
Page ==
  Rule15.old \o "\n" \o LoginLines \o "\n" \o Rule3.old \o "\n"
    \o BookingLines \o "\n" \o StatusLines \o "\n" \o ConfirmLines
    \o "\n" \o PatternRule.old \o "\n"

OrderDocs == Pieces \cup {"", Page}

InitOrder ==
  /\ srcFile \in {File(d) : d \in OrderDocs}
  /\ modalFile = File("<div id='proModal'></div>")
  /\ content = ""
  /\ modal_html = ""
  /\ pc = "read_source"
  /\ ruleIdx = 1
  /\ wpos = 0
  /\ stdout = <<>>
  /\ runs = 1
  /\ src0 = srcFile
  /\ opens = 0
  /\ failedAt = ""
  /\ results = <<>>
  /\ ModalIdle
  /\ permSrc = srcFile.data
  /\ permDoc = srcFile.data
  /\ todo = 1..NumRules
  /\ jumps = 0

\* rule r applied to the document
ApplyOne(r) ==
  /\ pc = "done"
  /\ r \in todo
  /\ permDoc' = Replace(permDoc, Rules[r].old, Rules[r].new)
  /\ todo' = todo \ {r}
  /\ UNCHANGED <<permSrc, patcherVars, modalVars>>

\* the earliest pending rule, as in the script
ApplyInTurn ==
  /\ todo # {}
  /\ ApplyOne(Least(todo))
  /\ jumps' = jumps

\* a later rule, ahead of an earlier one still pending
ApplyAhead ==
  /\ jumps < MaxJumps
  /\ \E r \in todo : r # Least(todo) /\ ApplyOne(r)
  /\ jumps' = jumps + 1

NextOrder == Step \/ ApplyInTurn \/ ApplyAhead

SpecOrder == InitOrder /\ [][NextOrder]_vars

\* where position p of a document is after the occurrences of old at occ have
\* each been replaced by new
Shifted(p, occ, old, new) ==
  p + (Len(new) - Len(old)) * Cardinality({q \in occ : q < p})

\* applying rule r to d gives e: r's matches are gone, and every other rule
\* has in e exactly the matches it had in d, moved with the text
MatchesCarriedOver(d, e, r) ==
  LET occ == Occurrences(d, Rules[r].old)
  IN \A s \in 1..NumRules :
       Occurrences(e, Rules[s].old) =
         IF s = r THEN {}
         ELSE {Shifted(p, occ, Rules[r].old, Rules[r].new) :
                 p \in Occurrences(d, Rules[s].old)}

\* the last k characters of a are the first k of b, for a k in 1..n
Border(a, b, n) ==
  \E k \in 1..n : SubSeq(a, Len(a) - k + 1, Len(a)) = SubSeq(b, 1, k)

\* some document holds an occurrence of a and one of b that share a
\* character, a and b being different texts
CanOverlap(a, b) ==
  \/ Occurrences(a, b) # {}
  \/ Occurrences(b, a) # {}
  \/ Border(a, b, Min(Len(a), Len(b)))
  \/ Border(b, a, Min(Len(a), Len(b)))

\* the match of rule r overlaps no other rule's match nor itself, and no
\* rule's match lies in or across the text r's replacement produces, whatever
\* the document
Separate(r) ==
  /\ ~Border(Rules[r].old, Rules[r].old, Len(Rules[r].old) - 1)
  /\ \A s \in 1..NumRules :
       /\ s # r => ~CanOverlap(Rules[s].old, Rules[r].old)
       /\ ~CanOverlap(Rules[s].old, Rules[r].new)

\* C8: the script applies the rules in declaration order; no rule's match
\* lies in or across text a replacement produces and no two matches overlap,
\* so that applying a rule neither creates a match of any rule nor destroys
\* one of another rule; and the rules applied in another order give the
\* document the script wrote.
C8_OrderIndependent ==
  /\ [][pc = "rules" =>
          /\ ruleIdx' = ruleIdx + 1
          /\ content' = Replace(content, Rules[ruleIdx].old, Rules[ruleIdx].new)
          /\ Separate(ruleIdx)
          /\ MatchesCarriedOver(content, content', ruleIdx)]_vars
  /\ [][\A r \in todo \ todo' : MatchesCarriedOver(permDoc, permDoc', r)]_vars
  /\ []((pc = "done" /\ todo = {}) => permDoc = srcFile.data)

\* all the rules were applied, one of them ahead of its turn, to a document
\* in which several rules match
C8_Witness ==
  /\ pc = "done"
  /\ todo = {}
  /\ jumps = 1
  /\ permSrc = Page
  /\ permDoc # permSrc

=============================================================================
